---- MODULE Spec2Model ----
(***************************************************************************)
(* Model of View_FS_Golf_Lesson.py: a Streamlit page that lists lesson     *)
(* folders, loads the first CSV of the chosen folder through a cache keyed *)
(* by path, shows a preview table and the metrics and video of one shot.   *)
(*                                                                         *)
(* State: the file system under the base directory, the st.cache_data      *)
(* cache of load_data, the session's two selectbox widgets, and the page   *)
(* produced by the last run of main().  Every user interaction re-runs     *)
(* main() from top to bottom.                                              *)
(***************************************************************************)
EXTENDS Integers, Sequences, FiniteSets, TLC

\* ------------------------------------------------------------------ bounds
MaxEdits == 1     \* file-system changes made while the server is running
MaxRows == 3      \* rows of the largest CSV

\* ------------------------------------------------------- values and tables
None == -1                  \* Python None where an index is expected
NoLesson == "<None>"        \* Python None where a lesson name is expected
NaN == "<NaN>"              \* pandas' value of an empty CSV cell
NA == "N/A"

excluded == {"venv", ".venv"}

preview_cols ==
  <<"Player", "Time", "Club", "Club Speed [mph]", "Shot Type", "Carry [yds]",
    "Radar Video">>

desired_metrics ==
  <<"Index", "Carry [yds]", "Total [yds]", "Smash", "Spin [rpm]",
    "Club Path [deg]", "V-Plane [deg]", "Height [ft]", "Club Speed [mph]",
    "AOA [deg]", "Low Point [in]", "Club", "Shot Type">>

Range(s) == {s[i] : i \in 1..Len(s)}

\* the columns of the consumed CSV schema
Columns == Range(preview_cols) \cup Range(desired_metrics)

\* two recorded shots; the CSV's own Index column counts from 1
Shot1 ==
  [c \in Columns |->
     CASE c = "Player" -> "Ann"        [] c = "Time" -> "10:01"
       [] c = "Club" -> "7i"           [] c = "Club Speed [mph]" -> "81"
       [] c = "Shot Type" -> "Draw"    [] c = "Carry [yds]" -> "150"
       [] c = "Radar Video" -> "a.mp4" [] c = "Index" -> "1"
       [] c = "Total [yds]" -> "158"   [] c = "Smash" -> "1.33"
       [] c = "Spin [rpm]" -> "6500"   [] c = "Club Path [deg]" -> "2.1"
       [] c = "V-Plane [deg]" -> "58"  [] c = "Height [ft]" -> "90"
       [] c = "AOA [deg]" -> "-4"      [] c = "Low Point [in]" -> "3.0"]

Shot2 ==
  [c \in Columns |->
     CASE c = "Player" -> "Ann"        [] c = "Time" -> "10:05"
       [] c = "Club" -> "Dr"           [] c = "Club Speed [mph]" -> "99"
       [] c = "Shot Type" -> "Fade"    [] c = "Carry [yds]" -> "230"
       [] c = "Radar Video" -> "b.mp4" [] c = "Index" -> "2"
       [] c = "Total [yds]" -> "251"   [] c = "Smash" -> "1.47"
       [] c = "Spin [rpm]" -> "2600"   [] c = "Club Path [deg]" -> "-1.2"
       [] c = "V-Plane [deg]" -> "47"  [] c = "Height [ft]" -> "101"
       [] c = "AOA [deg]" -> "3"       [] c = "Low Point [in]" -> "-1.0"]

\* the table pd.read_csv returns: its column names and its rows in file order
Table(cols, rows) == [cols |-> cols, rows |-> rows]

\* n shots, alternating the two recorded shots
Shots(n) == [i \in 1..n |-> IF i % 2 = 1 THEN Shot1 ELSE Shot2]

\* the same shots with value v in the first row's "Radar Video" cell
WithVideo(rows, v) ==
  [i \in 1..Len(rows) |->
     IF i = 1 THEN [rows[i] EXCEPT !["Radar Video"] = v] ELSE rows[i]]

\* the same shots restricted to the columns cols
Only(rows, cols) == [i \in 1..Len(rows) |-> [k \in cols |-> rows[i][k]]]

\* The CSV files considered: n shots, the video named in the first row, and
\* the column the file lacks ("" when it has them all).
Csv(n, v, c) == [shots |-> n, video |-> v, lacks |-> c]
LackedCols == {"Smash", "Club", "Radar Video"}
Contents ==
  {Csv(n, "a.mp4", "") : n \in 0..MaxRows}
    \cup {Csv(2, v, "") : v \in {"gone.mp4", NaN}}
    \cup {Csv(2, "a.mp4", c) : c \in LackedCols}

\* the table each of these files parses to
Parsed ==
  [content \in Contents |->
     Table(Columns \ {content.lacks},
           Only(WithVideo(Shots(content.shots), content.video),
                Columns \ {content.lacks}))]

\* pd.read_csv(csv_path, encoding='windows-1252'): the file's rows in file order
read_csv(content) == Parsed[content]

\* ------------------------------------------------------------ file system
Script == [name |-> "View_FS_Golf_Lesson.py", is_dir |-> FALSE]
DirNames == {"LessonA", "LessonB", "venv", ".venv"}
Entries ==
  {[name |-> n, is_dir |-> TRUE] : n \in DirNames}
    \cup {Script, [name |-> "notes.txt", is_dir |-> FALSE]}
CsvNames == {"shots.csv"}
VideoNames == {"a.mp4", "b.mp4"}

VARIABLES
  listing,      \* base_dir.iterdir(): the entries of the base directory, in order
  files,        \* per directory: its CSV files [name, content] in glob order
  videos,       \* per directory: the video files that exist in it
  edits,        \* number of file-system changes so far
  cache,        \* st.cache_data of load_data: the paths loaded and their tables
  reads,        \* per path: how often pd.read_csv has read it
  firstRead,    \* per path: the table its first read returned
  lessonWidget, \* session state of the sidebar selectbox
  shotWidget,   \* session state of the shot selectbox
  page          \* what the last run of main() rendered

vars ==
  <<listing, files, videos, edits, cache, reads, firstRead, lessonWidget,
    shotWidget, page>>

fsVars == <<listing, files, videos, edits>>
uiVars == <<cache, reads, firstRead, lessonWidget, shotWidget, page>>

Paths == DirNames \X CsvNames

\* find_lessons without its exclusion of the virtualenv directories
find_lessons_all_dirs(dir) == SelectSeq(dir, LAMBDA d : d.is_dir)

\* def find_lessons(base_dir)
find_lessons(dir) ==
  SelectSeq(dir, LAMBDA d : d.is_dir /\ d.name \notin excluded)

lesson_names(lessons) == [i \in 1..Len(lessons) |-> lessons[i].name]

\* ------------------------------------------------------- st.selectbox state
\* A widget's identity is its label and its formatted options; the session
\* keeps the chosen position under that identity.
NoWidget == [present |-> FALSE, opts |-> <<>>, idx |-> None]
Widget(opts, idx) == [present |-> TRUE, opts |-> opts, idx |-> idx]

\* st.selectbox(label, options): the position kept for this widget, else the
\* first option, else None when there is no option
selectbox(state, options) ==
  IF state.present /\ state.opts = options THEN state.idx
  ELSE IF options = <<>> THEN None
  ELSE 0

\* ------------------------------------------------------------- load_data
\* load_data without @st.cache_data: every call reads the file
load_data_uncached(c, csv_path, content) ==
  [of |-> content, cache |-> (csv_path :> content) @@ c, read |-> TRUE]

\* @st.cache_data def load_data(csv_path): memoized by csv_path
\* c holds, per path loaded, the file content whose table is cached
load_data(c, csv_path, content) ==
  IF csv_path \in DOMAIN c
    THEN [of |-> c[csv_path], cache |-> c, read |-> FALSE]
    ELSE [of |-> content, cache |-> (csv_path :> content) @@ c, read |-> TRUE]

\* ------------------------------------------------------------------ main
\* lesson_dir.glob('*.csv')
glob_csv(lesson) == files[lesson]

\* main without the check for an empty glob result
no_csv_unchecked(csv_files) == FALSE

\* if not csv_files
no_csv(csv_files) == csv_files = <<>>

\* df[preview_cols] cut to all rows but the last
project_short(df, cols) ==
  [columns |-> cols,
   rows |-> [i \in 1..(Len(df.rows) - 1) |->
               [c \in Range(cols) |-> df.rows[i][c]]]]

\* df[preview_cols]
project(df, cols) ==
  [columns |-> cols,
   rows |-> [i \in 1..Len(df.rows) |-> [c \in Range(cols) |-> df.rows[i][c]]]]

\* df.index.tolist(): the row positions, counted from 0
index_list(df) == [i \in 1..Len(df.rows) |-> i - 1]

\* df.loc[idx] finds a row
has_row(df, idx) == idx \in Range(index_list(df))

\* df.loc[idx]
loc(df, idx) == df.rows[idx + 1]

\* row.get(col, default)
get(row, col, default) == IF col \in DOMAIN row THEN row[col] ELSE default

\* def format_shot(idx)
format_shot(df, idx) ==
  LET row == loc(df, idx)
  IN  <<idx, row["Club"], row["Shot Type"], row["Carry [yds]"]>>

\* the metrics with "Index" counted from 1, as the CSV's own column counts
build_metrics_from_one(row, selected_idx, cols) ==
  [c \in Range(cols) |->
     IF c = cols[1] THEN selected_idx + 1 ELSE get(row, c, NA)]

\* metrics = {"Index": selected_idx}; metrics[col] = row.get(col, "N/A")
build_metrics(row, selected_idx, cols) ==
  [c \in Range(cols) |->
     IF c = cols[1] THEN selected_idx ELSE get(row, c, NA)]

\* the page before main() has rendered anything
Blank ==
  [ran |-> FALSE, listed |-> <<>>, lesson_names |-> <<>>,
   selected_lesson |-> NoLesson, csv_files |-> <<>>, existing |-> {},
   loaded |-> FALSE, hit |-> FALSE, on_disk |-> Csv(0, "a.mp4", ""),
   df_of |-> Csv(0, "a.mp4", ""),
   table_shown |-> FALSE, table |-> project(Table({}, <<>>), <<>>),
   selector_shown |-> FALSE, options |-> <<>>, selected_idx |-> None,
   looked_up |-> FALSE, metrics_shown |-> FALSE, metrics |-> <<>>,
   video |-> "none", error |-> "", exception |-> ""]

Result(p, lw, sw, shown, c, path) ==
  [page |-> p, lessonWidget |-> lw, shotWidget |-> sw, shotShown |-> shown,
   cache |-> c, read |-> path]

\* with tab_video: lines 47-102
tab_video(p, lesson, df, lw, sw, c, path) ==
  LET idxs == index_list(df)
  IN
  IF idxs # <<>> /\ ~({"Club", "Shot Type", "Carry [yds]"} \subseteq df.cols)
    THEN Result([p EXCEPT !.exception = "KeyError"], lw, sw, FALSE, c, path)
  ELSE
    LET options == [i \in 1..Len(idxs) |-> format_shot(df, idxs[i])]
        selected_idx == selectbox(sw, options)
        w == Widget(options, selected_idx)
        p1 == [p EXCEPT !.selector_shown = TRUE, !.options = options,
                        !.selected_idx = selected_idx, !.looked_up = TRUE]
    IN
    IF ~has_row(df, selected_idx)
      THEN Result([p1 EXCEPT !.exception = "KeyError"], lw, w, TRUE, c, path)
    ELSE
      LET row == loc(df, selected_idx)
          p2 == [p1 EXCEPT !.metrics_shown = TRUE,
                           !.metrics =
                             build_metrics(row, selected_idx, desired_metrics)]
      IN
      IF "Radar Video" \notin DOMAIN row
        THEN Result([p2 EXCEPT !.exception = "KeyError"], lw, w, TRUE, c, path)
      ELSE IF row["Radar Video"] = NaN
        THEN Result([p2 EXCEPT !.exception = "TypeError"], lw, w, TRUE, c, path)
      \* video_file.exists()
      ELSE IF row["Radar Video"] \in videos[lesson]
        THEN Result([p2 EXCEPT !.video = "played"], lw, w, TRUE, c, path)
      ELSE Result([p2 EXCEPT !.video = "none", !.error = "video_not_found"],
                  lw, w, TRUE, c, path)

\* with tab_all: lines 37-45
tab_all(p, lesson, df, lw, sw, c, path) ==
  IF ~(Range(preview_cols) \subseteq df.cols)
    THEN Result([p EXCEPT !.exception = "KeyError"], lw, sw, FALSE, c, path)
  ELSE tab_video([p EXCEPT !.table_shown = TRUE,
                           !.table = project(df, preview_cols)],
                 lesson, df, lw, sw, c, path)

\* def main(), run with the session's widget state and the cache
main(lwState, swState, c) ==
  LET lessons == find_lessons(listing)
      names == lesson_names(lessons)
      li == selectbox(lwState, names)
      lw == Widget(names, li)
      p0 == [Blank EXCEPT !.ran = TRUE, !.listed = listing,
                          !.lesson_names = names]
  IN
  IF li = None
    \* base_dir / None
    THEN Result([p0 EXCEPT !.exception = "TypeError"], lw, swState, FALSE, c, <<>>)
  ELSE
    LET selected_lesson == names[li + 1]
        csv_files == glob_csv(selected_lesson)
        p1 == [p0 EXCEPT !.selected_lesson = selected_lesson,
                         !.csv_files = csv_files,
                         !.existing = videos[selected_lesson]]
    IN
    IF no_csv(csv_files)
      THEN Result([p1 EXCEPT !.error = "no_csv"], lw, swState, FALSE, c, <<>>)
    ELSE IF csv_files = <<>>
      \* csv_files[0] of an empty list
      THEN Result([p1 EXCEPT !.exception = "IndexError"], lw, swState, FALSE, c, <<>>)
    ELSE
      LET csv_path == <<selected_lesson, csv_files[1].name>>
          ld == load_data(c, csv_path, csv_files[1].content)
          p2 == [p1 EXCEPT !.loaded = TRUE, !.hit = ~ld.read,
                           !.on_disk = csv_files[1].content,
                           !.df_of = ld.of]
      IN tab_all(p2, selected_lesson, read_csv(ld.of), lw, swState, ld.cache,
                 IF ld.read THEN <<csv_path>> ELSE <<>>)

\* One script run.  Widgets the run did not render are dropped from the
\* session when the run ends normally; a run ended by an exception may keep
\* them, depending on the Streamlit version.
Run(lwState, swState) ==
  \E r \in {main(lwState, swState, cache)} :
      /\ page' = r.page
      /\ lessonWidget' = r.lessonWidget
      /\ cache' = r.cache
      /\ reads' = [q \in Paths |->
                     IF q \in Range(r.read) THEN reads[q] + 1 ELSE reads[q]]
      /\ firstRead' =
           IF r.read # <<>> /\ r.read[1] \notin DOMAIN firstRead
             THEN (r.read[1] :> r.page.df_of) @@ firstRead
             ELSE firstRead
      /\ \/ shotWidget' = IF r.shotShown THEN r.shotWidget ELSE NoWidget
         \/ /\ r.page.exception # ""
            /\ ~r.shotShown
            /\ shotWidget' = swState

\* ---------------------------------------------------------------- actions
\* The base directory when the server starts: the script and any of a
\* virtualenv and two lesson folders, each lesson with its CSV and videos.
Layout ==
  <<Script, [name |-> "LessonA", is_dir |-> TRUE],
    [name |-> "venv", is_dir |-> TRUE], [name |-> "LessonB", is_dir |-> TRUE]>>

Init ==
  /\ \E K \in SUBSET {"LessonA", "venv", "LessonB"} :
       /\ listing = SelectSeq(Layout, LAMBDA e : e = Script \/ e.name \in K)
       /\ files =
            [d \in DirNames |->
               IF d \in K \ excluded
                 THEN <<[name |-> "shots.csv",
                         content |->
                           Csv(IF d = "LessonA" THEN MaxRows ELSE 2, "a.mp4", "")]>>
                 ELSE <<>>]
       /\ videos = [d \in DirNames |-> IF d \in K \ excluded THEN VideoNames ELSE {}]
  /\ edits = 0
  /\ cache = <<>>
  /\ reads = [q \in Paths |-> 0]
  /\ firstRead = <<>>
  /\ lessonWidget = NoWidget
  /\ shotWidget = NoWidget
  /\ page = Blank

\* a browser opens the page: a new session runs main()
OpenPage ==
  /\ Run(NoWidget, NoWidget)
  /\ UNCHANGED fsVars

\* the script re-runs with the session's widgets as they are
Rerun ==
  /\ page.ran
  /\ Run(lessonWidget, shotWidget)
  /\ UNCHANGED fsVars

\* the user picks entry i of the sidebar selectbox
SelectLesson(i) ==
  /\ page.ran
  /\ i \in 0..(Len(lessonWidget.opts) - 1)
  /\ Run([lessonWidget EXCEPT !.idx = i], shotWidget)
  /\ UNCHANGED fsVars

\* the user picks entry k of the shot selectbox
SelectShot(k) ==
  /\ page.selector_shown
  /\ k \in 0..(Len(shotWidget.opts) - 1)
  /\ Run(lessonWidget, [shotWidget EXCEPT !.idx = k])
  /\ UNCHANGED fsVars

Edit == edits < MaxEdits /\ edits' = edits + 1

DirsListed == {listing[i].name : i \in {j \in 1..Len(listing) : listing[j].is_dir}}

InsertAt(s, i, e) == SubSeq(s, 1, i - 1) \o <<e>> \o SubSeq(s, i, Len(s))
RemoveAt(s, i) == SubSeq(s, 1, i - 1) \o SubSeq(s, i + 1, Len(s))

\* a directory or a file appears in the base directory
AddEntry(e, i) ==
  /\ Edit
  /\ e.name \notin {listing[j].name : j \in 1..Len(listing)}
  /\ i \in {1, Len(listing) + 1}
  /\ listing' = InsertAt(listing, i, e)
  /\ UNCHANGED <<files, videos>>
  /\ UNCHANGED uiVars

\* an entry of the base directory is deleted, a directory with its content
RemoveEntry(i) ==
  /\ Edit
  /\ i \in 1..Len(listing)
  /\ listing[i] # Script
  /\ listing' = RemoveAt(listing, i)
  /\ IF listing[i].is_dir
       THEN /\ files' = [files EXCEPT ![listing[i].name] = <<>>]
            /\ videos' = [videos EXCEPT ![listing[i].name] = {}]
       ELSE UNCHANGED <<files, videos>>
  /\ UNCHANGED uiVars

\* a CSV file of a directory is written: replaced, or created
WriteCsv(d, f, t) ==
  /\ Edit
  /\ d \in DirsListed \ excluded
  /\ files' =
       [files EXCEPT ![d] =
          IF \E i \in 1..Len(@) : @[i].name = f
            THEN [i \in 1..Len(@) |->
                    IF @[i].name = f THEN [name |-> f, content |-> t] ELSE @[i]]
            ELSE Append(@, [name |-> f, content |-> t])]
  /\ files' # files
  /\ UNCHANGED <<listing, videos>>
  /\ UNCHANGED uiVars

\* a CSV file of a directory is deleted
RemoveCsv(d, i) ==
  /\ Edit
  /\ d \in DirsListed
  /\ i \in 1..Len(files[d])
  /\ files' = [files EXCEPT ![d] = RemoveAt(@, i)]
  /\ UNCHANGED <<listing, videos>>
  /\ UNCHANGED uiVars

\* a video file of a directory is deleted
RemoveVideo(d, v) ==
  /\ Edit
  /\ d \in DirsListed \ excluded
  /\ v \in videos[d]
  /\ videos' = [videos EXCEPT ![d] = @ \ {v}]
  /\ UNCHANGED <<listing, files>>
  /\ UNCHANGED uiVars

Next ==
  \/ OpenPage
  \/ Rerun
  \/ \E i \in 0..(Cardinality(Entries) - 1) : SelectLesson(i)
  \/ \E k \in 0..(MaxRows - 1) : SelectShot(k)
  \/ \E e \in Entries, i \in 1..(Cardinality(Entries) + 1) : AddEntry(e, i)
  \/ \E i \in 1..Cardinality(Entries) : RemoveEntry(i)
  \/ \E d \in DirNames, f \in CsvNames, t \in Contents : WriteCsv(d, f, t)
  \/ \E d \in DirNames, i \in 1..Cardinality(CsvNames) : RemoveCsv(d, i)
  \/ \E d \in DirNames, v \in VideoNames : RemoveVideo(d, v)

Spec == Init /\ [][Next]_vars

\* ----------------------------------------------------------------- claims
df == read_csv(page.df_of)
N == Len(df.rows)
MetricCols == Range(desired_metrics) \ {"Index"}
Eligible(e) == e.is_dir /\ e.name # "venv" /\ e.name # ".venv"
PosIn(seq, n) == CHOOSE i \in 1..Len(seq) : seq[i].name = n

\* C1: a run's lesson list holds exactly the directories of the base
\* directory not named venv or .venv: each once, no plain file, no excluded
\* directory, in the order of the directory listing.
C1_Discovery ==
  page.ran =>
    /\ \A i \in 1..Len(page.listed) :
         Eligible(page.listed[i]) =>
           Cardinality({j \in 1..Len(page.lesson_names) :
                          page.lesson_names[j] = page.listed[i].name}) = 1
    /\ \A j \in 1..Len(page.lesson_names) :
         \E i \in 1..Len(page.listed) :
           page.listed[i].name = page.lesson_names[j] /\ Eligible(page.listed[i])
    /\ \A j1, j2 \in 1..Len(page.lesson_names) :
         j1 < j2 =>
           PosIn(page.listed, page.lesson_names[j1])
             < PosIn(page.listed, page.lesson_names[j2])

C1_Witness ==
  /\ page.ran
  /\ page.listed = listing
  /\ page.lesson_names = <<"LessonA", "LessonB">>
  /\ \E i \in 1..Len(listing) : listing[i].name = "venv" /\ listing[i].is_dir
  /\ \E i \in 1..Len(listing) : ~listing[i].is_dir

\* C2: every load of a path returns the table read at the first load of that
\* path, whatever the file holds by now, and no path is read more than once.
C2_CachedByPath ==
  /\ \A q \in Paths : reads[q] <= 1
  /\ page.loaded =>
       LET csv_path == <<page.selected_lesson, page.csv_files[1].name>>
       IN  /\ csv_path \in DOMAIN firstRead
           /\ page.df_of = firstRead[csv_path]

C2_Witness ==
  /\ page.loaded
  /\ page.hit
  /\ page.on_disk # page.df_of
  /\ reads[<<page.selected_lesson, page.csv_files[1].name>>] = 1

\* C3: on the first render after the selected lesson changed to another
\* lesson, the chosen shot is the first row of the new lesson's table.
C3_ResetOnLessonChange ==
  [][(/\ page.selector_shown
      /\ page'.selector_shown
      /\ page'.selected_lesson # page.selected_lesson
      /\ page'.options # <<>>)
       => page'.selected_idx = 0]_vars

\* C4: when the selected row's "Radar Video" value names no existing file of
\* the lesson directory (an empty or absent value included), the run shows
\* the not-found message after the table and the metrics and raises nothing.
C4_VideoNotFound ==
  (/\ page.looked_up
   /\ has_row(df, page.selected_idx)
   /\ LET row == loc(df, page.selected_idx)
      IN  \/ "Radar Video" \notin DOMAIN row
          \/ row["Radar Video"] \notin page.existing)
    => /\ page.error = "video_not_found"
       /\ page.exception = ""
       /\ page.table_shown
       /\ page.metrics_shown

\* C5: for every column of the metric list that the loaded table lacks, the
\* detail view shows "N/A" for it and the run does not fail.
C5_MissingMetric ==
  \A c \in MetricCols :
    (page.loaded /\ c \notin df.cols /\ N > 0)
      => /\ page.exception = ""
         /\ page.metrics_shown
         /\ page.metrics[c] = NA

\* C6: when the chosen lesson directory holds no CSV file, the run shows the
\* error and stops: load_data is not called and no table, shot selector,
\* metrics or video is rendered.
C6_NoCsv ==
  (page.ran /\ page.selected_lesson # NoLesson /\ page.csv_files = <<>>)
    => /\ page.error = "no_csv"
       /\ page.exception = ""
       /\ ~page.loaded
       /\ ~page.table_shown
       /\ ~page.selector_shown
       /\ ~page.metrics_shown
       /\ page.video = "none"

C6_Witness ==
  /\ page.ran
  /\ page.selected_lesson \in {"LessonA", "LessonB"}
  /\ page.csv_files = <<>>
  /\ page.error = "no_csv"

\* C7: when lesson discovery finds no lesson, the run ends without an
\* unhandled failure.
C7_NoLessons ==
  (page.ran /\ page.lesson_names = <<>>) => page.exception = ""

\* C8: the metrics shown are those of the row at the selected position k of
\* the loaded table, "Index" is k itself, and k is the position the session
\* holds for the shot selector.
C8_RowMetrics ==
  /\ page.selector_shown => shotWidget.idx = page.selected_idx
  /\ page.metrics_shown =>
       /\ page.selected_idx \in 0..(N - 1)
       /\ page.metrics["Index"] = page.selected_idx
       /\ \A c \in MetricCols \cap df.cols :
            page.metrics[c] = df.rows[page.selected_idx + 1][c]

C8_Witness ==
  /\ page.metrics_shown
  /\ N = 3
  /\ page.selected_idx = 2
  /\ df.rows[3]["Index"] = "1"
  /\ page.metrics["Carry [yds]"] = "150"

\* C9: the table shown has the preview columns and, row for row in the
\* order of the loaded table, that table's values; it is shown whenever the
\* loaded table has the preview columns.
C9_PreviewTable ==
  /\ (page.loaded /\ Range(preview_cols) \subseteq df.cols) => page.table_shown
  /\ page.table_shown =>
       /\ page.table.columns = preview_cols
       /\ Len(page.table.rows) = N
       /\ \A i \in 1..N :
            /\ DOMAIN page.table.rows[i] = Range(preview_cols)
            /\ \A c \in Range(preview_cols) :
                 page.table.rows[i][c] = df.rows[i][c]

C9_Witness ==
  /\ page.table_shown
  /\ N = 3
  /\ page.table.rows[2]["Club"] = "Dr"
  /\ page.table.rows[3]["Club"] = "7i"

\* C10: whenever a run looks up the selected row, the index it uses is one
\* of the positions 0..N-1 of the table loaded for the selected lesson.
C10_IndexInRange ==
  page.looked_up => page.selected_idx \in 0..(N - 1)
====
